---- MODULE Spec2Model ----
(***************************************************************************)
(* Model of mcp_ssh_nas: the SSHClient connection manager and executor     *)
(* (client.py), the result formatter and the tool-catalog operations       *)
(* (operations/*.py).                                                      *)
(*                                                                         *)
(* Text is a sequence of tokens.  Variable text (output, messages, paths)  *)
(* is made of one-character tokens; a string literal of the source is one  *)
(* token, or a few tokens whose concatenation is the literal.              *)
(***************************************************************************)
EXTENDS Integers, Sequences, FiniteSets, TLC

\* ------------------------------------------------------------------ bounds
\* Number of connections (paramiko sessions) one run may open.
MaxSessions == 3

\* ------------------------------------------------------- program constants
ProbeTimeout == 5
ConnectTimeout == 30
DefaultTimeout == 30
StatusTimeout == 10
DockerLogsTimeout == 60
DefaultPort == 22
DefaultTop == 20
DefaultLogLines == 100

\* self._client is None
None == 0

\* The threads that may call into the one SSHClient, and the one that makes
\* the calls when they are made one at a time.
Callers == {1, 2}
SequentialCallers == {1}

\* ------------------------------------------------------------ text helpers
Whitespace == {" ", "\n", "\t"}

RECURSIVE LStrip(_)
LStrip(s) == IF s # <<>> /\ Head(s) \in Whitespace THEN LStrip(Tail(s)) ELSE s

RECURSIVE RStrip(_)
RStrip(s) == IF s # <<>> /\ s[Len(s)] \in Whitespace THEN RStrip(SubSeq(s, 1, Len(s) - 1)) ELSE s

\* str.strip()
Strip(s) == RStrip(LStrip(s))

\* sub in s
Contains(s, sub) == \E i \in 1..(Len(s) - Len(sub) + 1) : SubSeq(s, i, i + Len(sub) - 1) = sub

\* Python `a or b` on strings: a when a is non-empty, else b
PyOr(a, b) == IF a # <<>> THEN a ELSE b

\* dict.get(key, default)
Get(d, key, default) == IF key \in DOMAIN d THEN d[key] ELSE default

\* ------------------------------------------------------------- input sets
\* Constructor arguments; <<>> stands for an omitted (None) or empty argument.
HostArgs == {<<>>, <<" ">>, <<"h", "\n">>}
UserArgs == {<<>>, <<"u">>}
PasswordArgs == {<<>>, <<" ", "p">>}

\* a port given by NAS_PORT
EnvPort == 2222

\* Settings(): the defaults of config.py, or values of the NAS_* environment.
SettingsDefault == [host |-> <<>>, port |-> DefaultPort, user |-> <<>>, password |-> <<>>]
SettingsEnv == {[host |-> <<"n">>, port |-> EnvPort, user |-> <<"v">>, password |-> <<"q", "\n">>], [host |-> <<"n">>, port |-> DefaultPort, user |-> <<"v">>, password |-> <<"\n">>]}

\* str(e) of a raised exception
Msgs == {<<>>, <<"m">>}
\* what the remote command wrote and how it exited
Stdouts == {<<>>, <<"\n">>, <<" ", "a", "\n">>, <<"exists", "\n">>}
Stderrs == {<<>>, <<"\n">>, <<"e", "\n">>}
ExitCodes == {0, 1}

Commands == {<<>>, <<"l", "s">>}
Timeouts == {ProbeTimeout, DefaultTimeout}
Paths == {<<"/", "t">>}
OptPaths == {<<>>} \cup Paths
LinesArgs == {<<>>, <<0>>, <<2>>, <<-2>>, <<-10>>}
Contents == {<<>>, <<"i", "t", "'", "s">>, <<"'", "\\", "'">>}
Filters == {<<>>, <<"f">>}
Names == {<<"c">>}

\* ------------------------------------------------------------- exceptions
\* paramiko.AuthenticationException < paramiko.SSHException < Exception;
\* socket.timeout < Exception.
ExcKinds == {"AuthenticationException", "SSHException", "timeout", "Exception"}

Bases(kind) == CASE kind = "AuthenticationException" -> {"AuthenticationException", "SSHException", "Exception"}
    [] kind = "SSHException" -> {"SSHException", "Exception"}
    [] kind = "timeout" -> {"timeout", "Exception"}
    [] OTHER -> {"Exception"}

IsInstance(kind, cls) == cls \in Bases(kind)

\* ------------------------------------------------------------------ state
VARIABLES host, port, user, password, _client, sessions, nsess, calls

vars == <<host, port, user, password, _client, sessions, nsess, calls>>

\* the SSHClient and its sessions: everything but the callers' frames
client_state == <<host, port, user, password, _client, sessions, nsess>>

NoExc == [kind |-> "none", msg |-> <<>>, at |-> "none"]
NoResponse == [none |-> TRUE]

\* One caller's frame: where it is (pc), the operation and its arguments,
\* after_close = the call before this one was close(), the
\* arguments and locals of the running SSHClient.execute (command, timeout,
\* fresh = the value _connect returned, client = the local `client`), and the
\* record of what the call did: client0 = self._client as _get_client found it,
\* trace = the paramiko calls made by the running execute, exc = the exception
\* that reached execute's handlers, results = what execute returned so far.
IdleCall == [pc |-> "idle", op |-> "none", after_close |-> FALSE, args |-> [none |-> TRUE], stage |-> 0, command |-> <<>>, timeout |-> 0, client0 |-> None, fresh |-> None, client |-> None, trace |-> <<>>, exc |-> NoExc, results |-> <<>>, response |-> NoResponse]

\* SSHClient.__init__
Construct(hostArg, userArg, passwordArg, settings) ==
    /\ host = Strip(PyOr(hostArg, settings.host))
    /\ port = settings.port
    /\ user = Strip(PyOr(userArg, settings.user))
    /\ password = Strip(PyOr(passwordArg, settings.password))
    /\ _client = None

Init ==
    /\ \/ \E h \in HostArgs, u \in UserArgs, p \in PasswordArgs : Construct(h, u, p, SettingsDefault)
       \/ \E s \in SettingsEnv : Construct(<<>>, <<>>, <<>>, s)
    /\ sessions = [s \in 1..MaxSessions |-> "unborn"]
    /\ nsess = 0
    /\ calls = [c \in Callers |-> IdleCall]

\* A variant of configured that forgets the password.
configuredNoPassword == host # <<>> /\ user # <<>>

\* SSHClient.configured
configured == host # <<>> /\ user # <<>> /\ password # <<>>


\* ------------------------------------------------- SSHClient.execute, by step
Outcomes == {"ok"} \cup ExcKinds

\* What exec_command can do on the session ref: anything on an open session;
\* an exception on one that close() was called on; the AttributeError of
\* None.exec_command when ref is None.
ExecOutcomes(ref) == IF ref = None THEN {"Exception"} ELSE IF sessions[ref] = "closed" THEN ExcKinds ELSE Outcomes

\* What close() can do: anything on a session; the AttributeError of None.close()
\* when ref is None.
CloseOutcomes(ref) == IF ref = None THEN {"Exception"} ELSE Outcomes

\* One entry of a trace: the step `at` made the call `ev` on session sess.
Ev(at, ev, sess, cmd, timeout, ok) == [at |-> at, ev |-> ev, sess |-> sess, cmd |-> cmd, timeout |-> timeout, ok |-> ok]

ProbeCommand == <<"echo">>

NotConfiguredResult == [success |-> FALSE, error |-> <<"NAS credentials ", "not configured", ". Set NAS_HOST, NAS_USER, and NAS_PASSWORD.">>]

\* Variants of the except clauses: without the last, catch-all clause; and with
\* the first two clauses in the other order.
ExceptClausesNoCatchAll == <<"AuthenticationException", "SSHException">>
ExceptClausesSwapped == <<"SSHException", "AuthenticationException", "Exception">>

\* the except clauses of execute, in source order
ExceptClauses == <<"AuthenticationException", "SSHException", "Exception">>

\* index of the first clause that catches an exception of this kind, 0 if none does
Handler(kind) == IF \E i \in 1..Len(ExceptClauses) : IsInstance(kind, ExceptClauses[i]) THEN CHOOSE i \in 1..Len(ExceptClauses) : IsInstance(kind, ExceptClauses[i]) /\ \A j \in 1..(i - 1) : ~IsInstance(kind, ExceptClauses[j]) ELSE 0

\* the dict the clause returns
HandlerResult(cls, msg) == CASE cls = "AuthenticationException" -> [success |-> FALSE, error |-> <<"Authentication failed. Check username and password.">>]
    [] cls = "SSHException" -> [success |-> FALSE, error |-> <<"SSH error: ">> \o msg]
    [] OTHER -> [success |-> FALSE, error |-> <<"Connection error: ">> \o msg]

\* A variant of the result dict that reports success whatever the exit status.
RanResultAlwaysSuccess(exit_status, stdout_text, stderr_text) == [success |-> TRUE, exit_code |-> exit_status, stdout |-> stdout_text, stderr |-> stderr_text]

\* the dict of lines 87-92
RanResult(exit_status, stdout_text, stderr_text) == [success |-> (exit_status = 0), exit_code |-> exit_status, stdout |-> stdout_text, stderr |-> stderr_text]

\* A variant of the handler around close that swallows transport errors only.
CloseCaughtTransportOnly(kind) == IsInstance(kind, "SSHException")

\* `except Exception` around the probe (line 57) and around close (lines 60, 106)
ProbeCaught(kind) == IsInstance(kind, "Exception")
CloseCaught(kind) == IsInstance(kind, "Exception")

\* A variant that drops a session without calling close() on it.
CloseSessionSkipped(ss, s) == ss

\* paramiko's close() was called on session s: "closed" says that the client
\* called close() on the handle, whether or not that call raised
CloseSession(ss, s) == IF s \in DOMAIN ss THEN [ss EXCEPT ![s] = "closed"] ELSE ss

\* A variant that leaves the reference in place.
ClearedKeep(ref) == ref

\* self._client = None (lines 62, 108)
Cleared(ref) == None

\* A variant without the early return of line 56: the session is always replaced.
AfterProbeAlwaysReplace(ok) == "stale_close"

\* where _get_client goes after the probe: return the cached client, or replace it
AfterProbe(ok) == IF ok THEN "return_client" ELSE "stale_close"

Returned(me, result) == [me EXCEPT !.pc = "returned", !.results = Append(@, result)]

\* an exception raised inside execute's try block at step `at`
Raised(me, kind, msg, at) == IF Handler(kind) = 0 THEN [me EXCEPT !.pc = "raised", !.exc = [kind |-> kind, msg |-> msg, at |-> at]] ELSE Returned([me EXCEPT !.exc = [kind |-> kind, msg |-> msg, at |-> at]], HandlerResult(ExceptClauses[Handler(kind)], msg))

\* lines 73-77: the configuration check
Execute(c) ==
    /\ calls[c].pc = "execute"
    /\ calls' = [calls EXCEPT ![c] = IF ~configured THEN Returned(@, NotConfiguredResult) ELSE [@ EXCEPT !.pc = "get_client"]]
    /\ UNCHANGED client_state

\* line 53: if self._client is not None
GetClient(c) ==
    /\ calls[c].pc = "get_client"
    /\ calls' = [calls EXCEPT ![c] = [@ EXCEPT !.client0 = _client, !.pc = IF _client # None THEN "probe" ELSE "connect"]]
    /\ UNCHANGED client_state

\* lines 54-57: the liveness probe on the cached session
Probe(c) ==
    /\ calls[c].pc = "probe"
    /\ \E out \in ExecOutcomes(_client), msg \in Msgs :
        LET me == [calls[c] EXCEPT !.trace = Append(@, Ev("probe", "exec_command", _client, ProbeCommand, ProbeTimeout, out = "ok"))]
        IN calls' = [calls EXCEPT ![c] = IF out = "ok" \/ ProbeCaught(out) THEN [me EXCEPT !.pc = AfterProbe(out = "ok")] ELSE Raised(me, out, msg, "probe")]
    /\ UNCHANGED client_state

\* lines 58-61: close the stale session, swallowing what close raises
StaleClose(c) ==
    /\ calls[c].pc = "stale_close"
    /\ \E out \in CloseOutcomes(_client), msg \in Msgs :
        LET me == [calls[c] EXCEPT !.trace = Append(@, Ev("stale_close", "close", _client, <<>>, 0, out = "ok"))]
        IN calls' = [calls EXCEPT ![c] = IF out = "ok" \/ CloseCaught(out) THEN [me EXCEPT !.pc = "clear"] ELSE Raised(me, out, msg, "close")]
    /\ sessions' = CloseSession(sessions, _client)
    /\ UNCHANGED <<host, port, user, password, _client, nsess>>

\* line 62: self._client = None
ClearRef(c) ==
    /\ calls[c].pc = "clear"
    /\ _client' = Cleared(_client)
    /\ calls' = [calls EXCEPT ![c] = [@ EXCEPT !.pc = "connect", !.trace = Append(@, Ev("clear", "assign_none", _client, <<>>, 0, TRUE))]]
    /\ UNCHANGED <<host, port, user, password, sessions, nsess>>

\* A variant of Connect that tries a second time when the first attempt fails.
ConnectRetry(c) ==
    /\ calls[c].pc = "connect"
    /\ nsess < MaxSessions
    /\ UNCHANGED <<host, port, user, password, _client>>
    /\ \E out \in Outcomes, msg \in Msgs :
        IF out = "ok"
        THEN /\ nsess' = nsess + 1
             /\ sessions' = [sessions EXCEPT ![nsess + 1] = "open"]
             /\ calls' = [calls EXCEPT ![c] = [@ EXCEPT !.pc = "store", !.fresh = nsess + 1, !.trace = Append(@, Ev("connect", "connect", nsess + 1, <<>>, ConnectTimeout, TRUE))]]
        ELSE /\ calls' = [calls EXCEPT ![c] = IF \E i \in 1..Len(@.trace) : @.trace[i].at = "connect" THEN Raised([@ EXCEPT !.trace = Append(@, Ev("connect", "connect", None, <<>>, ConnectTimeout, FALSE))], out, msg, "connect") ELSE [@ EXCEPT !.trace = Append(@, Ev("connect", "connect", None, <<>>, ConnectTimeout, FALSE))]]
             /\ UNCHANGED <<sessions, nsess>>

\* lines 38-49, called from line 64: _connect()
Connect(c) ==
    /\ calls[c].pc = "connect"
    /\ nsess < MaxSessions
    /\ UNCHANGED <<host, port, user, password, _client>>
    /\ \E out \in Outcomes, msg \in Msgs :
        IF out = "ok"
        THEN /\ nsess' = nsess + 1
             /\ sessions' = [sessions EXCEPT ![nsess + 1] = "open"]
             /\ calls' = [calls EXCEPT ![c] = [@ EXCEPT !.pc = "store", !.fresh = nsess + 1, !.trace = Append(@, Ev("connect", "connect", nsess + 1, <<>>, ConnectTimeout, TRUE))]]
        ELSE /\ calls' = [calls EXCEPT ![c] = Raised([@ EXCEPT !.trace = Append(@, Ev("connect", "connect", None, <<>>, ConnectTimeout, FALSE))], out, msg, "connect")]
             /\ UNCHANGED <<sessions, nsess>>

\* line 64: self._client = <the new session>
Store(c) ==
    /\ calls[c].pc = "store"
    /\ _client' = calls[c].fresh
    /\ calls' = [calls EXCEPT ![c] = [@ EXCEPT !.pc = "return_client"]]
    /\ UNCHANGED <<host, port, user, password, sessions, nsess>>

\* lines 56, 65 and 80: return self._client; client = self._get_client()
ReturnClient(c) ==
    /\ calls[c].pc = "return_client"
    /\ calls' = [calls EXCEPT ![c] = [@ EXCEPT !.pc = "exec_command", !.client = _client]]
    /\ UNCHANGED client_state

\* A variant of line 81 that runs the command on self._client as it is now.
ExecCommandCurrent(c) ==
    /\ calls[c].pc = "exec_command"
    /\ \E out \in ExecOutcomes(_client), msg \in Msgs :
        LET me == [calls[c] EXCEPT !.trace = Append(@, Ev("exec_command", "exec_command", _client, calls[c].command, calls[c].timeout, out = "ok"))]
        IN calls' = [calls EXCEPT ![c] = IF out = "ok" THEN [me EXCEPT !.pc = "read"] ELSE Raised(me, out, msg, "exec_command")]
    /\ UNCHANGED client_state

\* line 81: client.exec_command(command, timeout=timeout)
ExecCommand(c) ==
    /\ calls[c].pc = "exec_command"
    /\ \E out \in ExecOutcomes(calls[c].client), msg \in Msgs :
        LET me == [calls[c] EXCEPT !.trace = Append(@, Ev("exec_command", "exec_command", calls[c].client, calls[c].command, calls[c].timeout, out = "ok"))]
        IN calls' = [calls EXCEPT ![c] = IF out = "ok" THEN [me EXCEPT !.pc = "read"] ELSE Raised(me, out, msg, "exec_command")]
    /\ UNCHANGED client_state

\* A variant of lines 83-92 that closes and drops the session when reading fails.
ReadOutputDropOnFailure(c) ==
    /\ calls[c].pc = "read"
    /\ UNCHANGED <<host, port, user, password, nsess>>
    /\ \E out \in Outcomes, msg \in Msgs, exit_status \in ExitCodes, stdout_text \in Stdouts, stderr_text \in Stderrs :
        IF out = "ok"
        THEN /\ calls' = [calls EXCEPT ![c] = Returned(@, RanResult(exit_status, stdout_text, stderr_text))]
             /\ UNCHANGED <<_client, sessions>>
        ELSE /\ calls' = [calls EXCEPT ![c] = Raised(@, out, msg, "read")]
             /\ sessions' = CloseSession(sessions, _client)
             /\ _client' = None

\* lines 83-92: exit status, both streams, the result dict
ReadOutput(c) ==
    /\ calls[c].pc = "read"
    /\ \E out \in Outcomes, msg \in Msgs, exit_status \in ExitCodes, stdout_text \in Stdouts, stderr_text \in Stderrs :
        calls' = [calls EXCEPT ![c] = IF out = "ok" THEN Returned(@, RanResult(exit_status, stdout_text, stderr_text)) ELSE Raised(@, out, msg, "read")]
    /\ UNCHANGED client_state

\* SSHClient.close (lines 101-108), as one step
Close(c) ==
    /\ calls[c].pc = "idle"
    /\ UNCHANGED <<host, port, user, password, nsess>>
    /\ \E out \in Outcomes, msg \in Msgs :
        LET me == [IdleCall EXCEPT !.op = "close", !.after_close = (calls[c].op = "close"), !.client0 = _client]
        IN IF _client = None
           THEN /\ calls' = [calls EXCEPT ![c] = me]
                /\ UNCHANGED <<_client, sessions>>
           ELSE /\ sessions' = CloseSession(sessions, _client)
                /\ IF out = "ok" \/ CloseCaught(out)
                   THEN /\ _client' = Cleared(_client)
                        /\ calls' = [calls EXCEPT ![c] = [me EXCEPT !.trace = <<Ev("close", "close", _client, <<>>, 0, out = "ok")>>]]
                   ELSE /\ UNCHANGED _client
                        /\ calls' = [calls EXCEPT ![c] = [me EXCEPT !.pc = "raised", !.trace = <<Ev("close", "close", _client, <<>>, 0, FALSE)>>, !.exc = [kind |-> out, msg |-> msg, at |-> "close"]]]

\* ------------------------------------------------------------ format_result
\* str(n) for an integer
DigitChars == <<"0", "1", "2", "3", "4", "5", "6", "7", "8", "9">>

RECURSIVE Digits(_)
Digits(n) == IF n < 10 THEN <<DigitChars[n + 1]>> ELSE Digits(n \div 10) \o <<DigitChars[(n % 10) + 1]>>

Str(n) == IF n < 0 THEN <<"-">> \o Digits(-n) ELSE Digits(n)

\* A variant of abs that leaves the sign.
absSigned(n) == n

abs(n) == IF n < 0 THEN -n ELSE n

\* A variant of format_result that drops stdout when there is stderr.
format_resultStderrOnly(result) == IF Get(result, "success", FALSE)
    THEN LET out1 == IF Get(result, "stdout", <<>>) # <<>> THEN result.stdout ELSE <<>>
             out2 == IF Get(result, "stderr", <<>>) # <<>> THEN <<"STDERR:", " ">> \o result.stderr ELSE out1
         IN PyOr(Strip(out2), <<"Command completed successfully (no output)">>)
    ELSE LET error == Get(result, "error", <<"Unknown error">>)
             stderr == Get(result, "stderr", <<>>)
         IN <<"Error: ">> \o error \o (IF stderr # <<>> THEN <<"\n">> \o stderr ELSE <<>>)

\* A variant of format_result without the default text for empty output.
format_resultNoDefault(result) == IF Get(result, "success", FALSE)
    THEN LET out1 == IF Get(result, "stdout", <<>>) # <<>> THEN result.stdout ELSE <<>>
             out2 == IF Get(result, "stderr", <<>>) # <<>> THEN out1 \o (IF out1 # <<>> THEN <<"\n">> ELSE <<>>) \o <<"STDERR:", " ">> \o result.stderr ELSE out1
         IN Strip(out2)
    ELSE LET error == Get(result, "error", <<"Unknown error">>)
             stderr == Get(result, "stderr", <<>>)
         IN <<"Error: ">> \o error \o (IF stderr # <<>> THEN <<"\n">> \o stderr ELSE <<>>)

\* client.py format_result
format_result(result) == IF Get(result, "success", FALSE)
    THEN LET out1 == IF Get(result, "stdout", <<>>) # <<>> THEN result.stdout ELSE <<>>
             out2 == IF Get(result, "stderr", <<>>) # <<>> THEN out1 \o (IF out1 # <<>> THEN <<"\n">> ELSE <<>>) \o <<"STDERR:", " ">> \o result.stderr ELSE out1
         IN PyOr(Strip(out2), <<"Command completed successfully (no output)">>)
    ELSE LET error == Get(result, "error", <<"Unknown error">>)
             stderr == Get(result, "stderr", <<>>)
         IN <<"Error: ">> \o error \o (IF stderr # <<>> THEN <<"\n">> \o stderr ELSE <<>>)

\* ----------------------------------------------- the commands the tools build
list_files_cmd(path, all, long) == LET flags == (IF long THEN <<"-", "l", "h">> ELSE <<>>) \o (IF all THEN <<"a">> ELSE <<>>)
    IN IF flags # <<>> THEN <<"ls", " ">> \o flags \o <<" ">> \o path ELSE <<"ls", " ">> \o path

\* lines is <<>> for None and <<n>> for the integer n
read_file_cmd(path, lines) == IF lines # <<>> /\ lines[1] # 0
    THEN IF lines[1] > 0 THEN <<"head -n ">> \o Str(lines[1]) \o <<" ">> \o path ELSE <<"tail -n ">> \o Str(abs(lines[1])) \o <<" ">> \o path
    ELSE <<"cat ">> \o path

\* A variant of the escaping that puts a backslash before each single quote.
RECURSIVE EscapeQuotesBackslash(_)
EscapeQuotesBackslash(content) == IF content = <<>> THEN <<>> ELSE (IF Head(content) = "'" THEN <<"\\", "'">> ELSE <<Head(content)>>) \o EscapeQuotesBackslash(Tail(content))

RECURSIVE EscapeQuotes(_)
EscapeQuotes(content) == IF content = <<>> THEN <<>> ELSE (IF Head(content) = "'" THEN <<"'", "\\", "'", "'">> ELSE <<Head(content)>>) \o EscapeQuotes(Tail(content))

write_file_cmd(path, content, append) == <<"echo ", "'">> \o EscapeQuotes(content) \o <<"'", " ">> \o (IF append THEN <<">>">> ELSE <<">">>) \o <<" ">> \o path

file_exists_cmd(path) == <<"test -e ">> \o path \o <<" && echo 'exists' || echo 'not found'">>

file_type_cmd(path) == <<"file ">> \o path

system_info_cmd == <<"echo '=== Hostname ===' && hostname && echo '=== OS ===' && cat /etc/os-release 2>/dev/null | head -5 || uname -a && echo '=== Uptime ===' && uptime && echo '=== Load ===' && cat /proc/loadavg 2>/dev/null || uptime">>

disk_usage_cmd(path) == IF path # <<>> THEN <<"df -h ">> \o path ELSE <<"df -h">>

memory_usage_cmd == <<"free -h 2>/dev/null || vm_stat">>

process_list_cmd(filter, top) == IF filter # <<>> THEN <<"ps aux | grep -i '">> \o filter \o <<"' | grep -v grep | head -n ">> \o Str(top) ELSE <<"ps aux --sort=-%cpu | head -n ">> \o Str(top + 1)

docker_ps_cmd(all) == IF all THEN <<"docker ps -a">> ELSE <<"docker ps">>

docker_logs_cmd(container, lines) == <<"docker logs --tail ">> \o Str(lines) \o <<" ">> \o container

service_status_cmd(service) == <<"systemctl status ">> \o service \o <<" 2>/dev/null || service ">> \o service \o <<" status">>

\* --------------------------------------------------- tool-catalog operations
\* A caller enters an operation: a fresh frame.
Enter(me, op, args) == [IdleCall EXCEPT !.op = op, !.after_close = (me.op = "close"), !.args = args]

\* The operation calls client.execute(command, timeout).
CallExecute(me, command, timeout) == [me EXCEPT !.pc = "execute", !.stage = @ + 1, !.command = command, !.timeout = timeout, !.client0 = None, !.fresh = None, !.client = None, !.trace = <<>>, !.exc = NoExc]

\* The operation returns resp to its caller.
Finish(me, resp) == [me EXCEPT !.pc = "idle", !.response = resp, !.command = <<>>, !.timeout = 0, !.client0 = None, !.fresh = None, !.client = None, !.trace = <<>>, !.exc = NoExc]

\* The operation starts and calls client.execute(command, timeout).
Invoked(me, op, args, command, timeout) == CallExecute(Enter(me, op, args), command, timeout)

\* A variant of exec.execute without the empty-command guard.
ssh_executeNoGuard(c) ==
    /\ calls[c].pc = "idle"
    /\ \E command \in Commands, timeout \in Timeouts :
        calls' = [calls EXCEPT ![c] = Invoked(@, "ssh_execute", [command |-> command, timeout |-> timeout], command, timeout)]
    /\ UNCHANGED client_state

\* exec.execute, up to its call of client.execute
ssh_execute(c) ==
    /\ calls[c].pc = "idle"
    /\ \E command \in Commands, timeout \in Timeouts :
        calls' = [calls EXCEPT ![c] = IF command = <<>> THEN Finish(Enter(@, "ssh_execute", [command |-> command, timeout |-> timeout]), [text |-> <<"Error: No command provided">>]) ELSE Invoked(@, "ssh_execute", [command |-> command, timeout |-> timeout], command, timeout)]
    /\ UNCHANGED client_state

\* A variant of exec.check_status without the configuration guard.
check_statusNoGuard(c) ==
    /\ calls[c].pc = "idle"
    /\ calls' = [calls EXCEPT ![c] = Invoked(@, "check_status", [none |-> TRUE], <<"hostname && uname -a">>, StatusTimeout)]
    /\ UNCHANGED client_state

\* exec.check_status, up to its call of client.execute
check_status(c) ==
    /\ calls[c].pc = "idle"
    /\ calls' = [calls EXCEPT ![c] = IF ~configured THEN Finish(Enter(@, "check_status", [none |-> TRUE]), [json |-> [status |-> "error", error |-> <<"NAS not configured. Set NAS_HOST, NAS_USER, NAS_PASSWORD">>]]) ELSE Invoked(@, "check_status", [none |-> TRUE], <<"hostname && uname -a">>, StatusTimeout)]
    /\ UNCHANGED client_state

\* the other operations, each up to its (first) call of client.execute
list_files(c) ==
    /\ calls[c].pc = "idle"
    /\ \E path \in Paths, all \in BOOLEAN, long \in BOOLEAN :
        calls' = [calls EXCEPT ![c] = Invoked(@, "list_files", [path |-> path, all |-> all, long |-> long], list_files_cmd(path, all, long), DefaultTimeout)]
    /\ UNCHANGED client_state

read_file(c) ==
    /\ calls[c].pc = "idle"
    /\ \E path \in Paths, lines \in LinesArgs :
        calls' = [calls EXCEPT ![c] = Invoked(@, "read_file", [path |-> path, lines |-> lines], read_file_cmd(path, lines), DefaultTimeout)]
    /\ UNCHANGED client_state

write_file(c) ==
    /\ calls[c].pc = "idle"
    /\ \E path \in Paths, content \in Contents, append \in BOOLEAN :
        calls' = [calls EXCEPT ![c] = Invoked(@, "write_file", [path |-> path, content |-> content, append |-> append], write_file_cmd(path, content, append), DefaultTimeout)]
    /\ UNCHANGED client_state

file_exists(c) ==
    /\ calls[c].pc = "idle"
    /\ \E path \in Paths :
        calls' = [calls EXCEPT ![c] = Invoked(@, "file_exists", [path |-> path], file_exists_cmd(path), DefaultTimeout)]
    /\ UNCHANGED client_state

system_info(c) ==
    /\ calls[c].pc = "idle"
    /\ calls' = [calls EXCEPT ![c] = Invoked(@, "system_info", [none |-> TRUE], system_info_cmd, DefaultTimeout)]
    /\ UNCHANGED client_state

disk_usage(c) ==
    /\ calls[c].pc = "idle"
    /\ \E path \in OptPaths :
        calls' = [calls EXCEPT ![c] = Invoked(@, "disk_usage", [path |-> path], disk_usage_cmd(path), DefaultTimeout)]
    /\ UNCHANGED client_state

memory_usage(c) ==
    /\ calls[c].pc = "idle"
    /\ calls' = [calls EXCEPT ![c] = Invoked(@, "memory_usage", [none |-> TRUE], memory_usage_cmd, DefaultTimeout)]
    /\ UNCHANGED client_state

process_list(c) ==
    /\ calls[c].pc = "idle"
    /\ \E filter \in Filters :
        calls' = [calls EXCEPT ![c] = Invoked(@, "process_list", [filter |-> filter, top |-> DefaultTop], process_list_cmd(filter, DefaultTop), DefaultTimeout)]
    /\ UNCHANGED client_state

docker_ps(c) ==
    /\ calls[c].pc = "idle"
    /\ \E all \in BOOLEAN :
        calls' = [calls EXCEPT ![c] = Invoked(@, "docker_ps", [all |-> all], docker_ps_cmd(all), DefaultTimeout)]
    /\ UNCHANGED client_state

docker_logs(c) ==
    /\ calls[c].pc = "idle"
    /\ \E container \in Names :
        calls' = [calls EXCEPT ![c] = Invoked(@, "docker_logs", [container |-> container, lines |-> DefaultLogLines], docker_logs_cmd(container, DefaultLogLines), DockerLogsTimeout)]
    /\ UNCHANGED client_state

service_status(c) ==
    /\ calls[c].pc = "idle"
    /\ \E service \in Names :
        calls' = [calls EXCEPT ![c] = Invoked(@, "service_status", [service |-> service], service_status_cmd(service), DefaultTimeout)]
    /\ UNCHANGED client_state

\* The operations that return format_result(result) as it is.
FormattedOps == {"ssh_execute", "list_files", "read_file", "system_info", "disk_usage", "memory_usage", "process_list", "docker_ps", "docker_logs", "service_status"}

\* exec.check_status lines 37-49
check_status_json(result) == IF Get(result, "success", FALSE)
    THEN [status |-> "connected", host |-> host \o <<":">> \o Str(port), user |-> user, system |-> Strip(Get(result, "stdout", <<>>))]
    ELSE [status |-> "error", host |-> host \o <<":">> \o Str(port), error |-> Get(result, "error", <<"Unknown error">>)]

\* files.write_file lines 72-74
write_file_text(path, result) == IF Get(result, "success", FALSE) THEN <<"Successfully wrote to ">> \o path ELSE format_result(result)

\* A variant of the comparison that does not trim the output.
file_exists_outputUntrimmed(result) == Get(result, "stdout", <<>>) = <<"exists">>

\* files.file_exists lines 84-85: the first command printed "exists"
file_exists_output(result) == Strip(Get(result, "stdout", <<>>)) = <<"exists">>

\* client.execute returned to the operation: the rest of the operation
OpReturn(c) ==
    /\ calls[c].pc = "returned"
    /\ LET me == calls[c]
           result == me.results[Len(me.results)]
       IN calls' = [calls EXCEPT ![c] =
            CASE me.op \in FormattedOps -> Finish(me, [text |-> format_result(result)])
              [] me.op = "check_status" -> Finish(me, [json |-> check_status_json(result)])
              [] me.op = "write_file" -> Finish(me, [text |-> write_file_text(me.args.path, result)])
              [] me.op = "file_exists" /\ me.stage = 1 -> IF file_exists_output(result) THEN CallExecute(me, file_type_cmd(me.args.path), DefaultTimeout) ELSE Finish(me, [json |-> [exists |-> FALSE]])
              [] OTHER -> Finish(me, [json |-> [exists |-> TRUE, info |-> Strip(Get(result, "stdout", <<>>))]])]
    /\ UNCHANGED client_state

\* ------------------------------------------------------------ specification
Step(c) ==
    \/ ssh_execute(c) \/ check_status(c) \/ list_files(c) \/ read_file(c) \/ write_file(c) \/ file_exists(c)
    \/ system_info(c) \/ disk_usage(c) \/ memory_usage(c) \/ process_list(c) \/ docker_ps(c) \/ docker_logs(c) \/ service_status(c)
    \/ Execute(c) \/ GetClient(c) \/ Probe(c) \/ StaleClose(c) \/ ClearRef(c) \/ Connect(c) \/ Store(c) \/ ReturnClient(c)
    \/ ExecCommand(c) \/ ReadOutput(c) \/ OpReturn(c) \/ Close(c)

\* calls made one at a time, by one caller
Next == \E c \in SequentialCallers : Step(c)

Spec == Init /\ [][Next]_vars

\* ------------------------------------------- two callers at the same time
\* One client, configured from the environment.
InitConcurrent == Init /\ configured /\ port = EnvPort

\* The inputs of the concurrent runs: the command "ls" with the default
\* timeout, one kind of exception, without a message, and commands that
\* print nothing.
QuietCall(me) ==
    /\ me.op = "ssh_execute" => (me.args.command = <<"l", "s">> /\ me.args.timeout = DefaultTimeout)
    /\ me.exc.kind \in {"none", "SSHException"}
    /\ me.exc.msg = <<>>
    /\ \A i \in 1..Len(me.results) : Get(me.results[i], "stdout", <<>>) = <<>> /\ Get(me.results[i], "stderr", <<>>) = <<>>

\* Each caller makes one call of the execute tool.
MayCall(c) == calls[c].op = "none"

\* A step of one caller that runs the execute tool.
StepConcurrent(c) ==
    \/ MayCall(c) /\ ssh_execute(c) /\ QuietCall(calls'[c])
    \/ Execute(c)
    \/ GetClient(c)
    \/ Probe(c)
    \/ StaleClose(c)
    \/ ClearRef(c)
    \/ Connect(c) /\ QuietCall(calls'[c])
    \/ Store(c)
    \/ ReturnClient(c)
    \/ ExecCommand(c) /\ QuietCall(calls'[c])
    \/ ReadOutput(c) /\ QuietCall(calls'[c])
    \/ OpReturn(c)

\* The statements of _get_client and execute of the callers interleave
\* freely: the server holds one SSHClient and the code takes no lock.
NextConcurrent == \E c \in Callers : StepConcurrent(c)

SpecConcurrent == InitConcurrent /\ [][NextConcurrent]_vars

\* ------------------------------------------------------------------ claims
\* The last result client.execute returned to the operation.
LastResult(me) == me.results[Len(me.results)]

\* Host, user and password are all non-empty (the client's fields are trimmed).
HasCredentials == host # <<>> /\ user # <<>> /\ password # <<>>

\* The positions of a trace where step `at` acted.
At(t, at) == {i \in 1..Len(t) : t[i].at = at}

\* C1: SSHClient.execute never propagates an exception to its caller: whatever
\* the probe, the close of a stale session, the connect, the command and the
\* reading of its output do, no frame inside execute is left by an exception,
\* and what execute returns is a dict with a boolean `success`.
C1_ExecuteNeverRaises == \A c \in Callers :
    LET me == calls[c]
    IN /\ (me.op # "close" => me.pc # "raised")
       /\ (me.pc = "returned" => /\ "success" \in DOMAIN LastResult(me)
                                 /\ LastResult(me).success \in BOOLEAN)

\* C1 witness: execute returned although the probe raised, closing the stale
\* session raised, and reading the output of the command timed out.
C1_Witness == \E c \in Callers :
    LET me == calls[c]
    IN /\ me.pc = "returned"
       /\ Len(me.trace) = 5
       /\ me.trace[1].at = "probe" /\ ~me.trace[1].ok
       /\ me.trace[2].at = "stale_close" /\ ~me.trace[2].ok
       /\ me.trace[4].at = "connect" /\ me.trace[4].ok
       /\ me.exc.kind = "timeout" /\ me.exc.at = "read"

\* C2: on a client that is not configured, execute returns success false with
\* an error containing "not configured", makes no probe and no connection
\* attempt, and the client holds no session and never opened one.
C2_NotConfigured == \A c \in Callers :
    LET me == calls[c]
    IN ~HasCredentials =>
        /\ _client = None
        /\ nsess = 0
        /\ me.trace = <<>>
        /\ me.pc \in {"idle", "execute", "returned"}
        /\ (me.pc = "returned" => /\ DOMAIN LastResult(me) = {"success", "error"}
                                  /\ LastResult(me).success = FALSE
                                  /\ Contains(LastResult(me).error, <<"not configured">>))

\* C2 witness: execute returned on a client whose host is empty after trimming
\* while user and password are set.
C2_Witness == \E c \in Callers :
    /\ calls[c].pc = "returned"
    /\ calls[c].op = "list_files"
    /\ host = <<>> /\ user # <<>> /\ password # <<>>

\* C3: every result of execute has one of two shapes: success false with
\* `error` and nothing else, or exit_code, stdout and stderr without `error`,
\* with success true exactly when exit_code is 0.
C3_ResultShapes == \A c \in Callers : \A i \in 1..Len(calls[c].results) :
    LET r == calls[c].results[i]
    IN \/ DOMAIN r = {"success", "error"} /\ r.success = FALSE
       \/ DOMAIN r = {"success", "exit_code", "stdout", "stderr"} /\ (r.success <=> r.exit_code = 0)

\* C3 witness: one operation got both shapes: file_exists' first command ran
\* and exited with 0, its second could not be run.
C3_Witness == \E c \in Callers :
    /\ Len(calls[c].results) = 2
    /\ "exit_code" \in DOMAIN calls[c].results[1]
    /\ "error" \in DOMAIN calls[c].results[2]
    /\ calls[c].exc.kind = "SSHException"

\* The sessions on which connect succeeded and close() was not yet called.
OpenSessions == {s \in 1..MaxSessions : sessions[s] = "open"}

\* C4: with calls made one at a time, at most one session opened by the client
\* is open at any time, and an open session is the one self._client points to
\* (inside _get_client, between lines 64's connect and its assignment, it is
\* the session just opened and about to be stored).
C4_OneOpenSession ==
    /\ Cardinality(OpenSessions) <= 1
    /\ \A s \in OpenSessions : _client = s \/ \E c \in Callers : calls[c].pc = "store" /\ calls[c].fresh = s
    /\ ((\A c \in Callers : calls[c].pc = "idle") => \A s \in OpenSessions : _client = s)

\* C4 witness: no call is running, two sessions were opened and closed, and
\* the third is open and referenced.
C4_Witness ==
    /\ \A c \in Callers : calls[c].pc = "idle"
    /\ sessions[1] = "closed" /\ sessions[2] = "closed" /\ sessions[3] = "open"
    /\ _client = 3

\* C5: when execute finds a cached session and the probe succeeds, it opens no
\* connection and makes exactly two calls, both exec_command on that session:
\* ("echo", 5) and then the caller's command with the caller's timeout; the
\* reference is the same afterwards.  A connection is attempted only when
\* there was no session or the probe failed.
C5_ProbeSuccessReuses == \A c \in Callers :
    LET me == calls[c]
        t == me.trace
    IN (me.pc = "returned" /\ HasCredentials) =>
        /\ (me.client0 # None /\ t[1].at = "probe" /\ t[1].ok) =>
            /\ Len(t) = 2
            /\ t[1] = [at |-> "probe", ev |-> "exec_command", sess |-> me.client0, cmd |-> <<"echo">>, timeout |-> 5, ok |-> t[1].ok]
            /\ t[2] = [at |-> "exec_command", ev |-> "exec_command", sess |-> me.client0, cmd |-> me.command, timeout |-> me.timeout, ok |-> t[2].ok]
            /\ _client = me.client0
            /\ sessions[me.client0] = "open"
        /\ ((\E i \in 1..Len(t) : t[i].ev = "connect") => (me.client0 = None \/ (t[1].at = "probe" /\ ~t[1].ok)))

\* C5 witness: execute returned a result of a command run on the cached session
\* after a successful probe.
C5_Witness == \E c \in Callers :
    /\ calls[c].pc = "returned"
    /\ calls[c].client0 # None
    /\ calls[c].trace[1].at = "probe" /\ calls[c].trace[1].ok
    /\ "exit_code" \in DOMAIN LastResult(calls[c])

\* C6: one execute call attempts at most one connection and runs the caller's
\* command at most once; when it returns on a configured client it has made
\* exactly one connection attempt if there was no session or the probe failed,
\* and none otherwise; a failed connect or a failed command is the last thing
\* the call did, and the call returns a result with `error`.
C6_NoRetry == \A c \in Callers :
    LET me == calls[c]
        t == me.trace
        probeFailed == t # <<>> /\ t[1].at = "probe" /\ ~t[1].ok
    IN /\ Cardinality(At(t, "connect")) <= 1
       /\ Cardinality(At(t, "exec_command")) <= 1
       /\ Cardinality(At(t, "probe")) <= 1
       /\ (me.pc = "returned" /\ HasCredentials) =>
            /\ Cardinality(At(t, "connect")) = (IF me.client0 = None \/ probeFailed THEN 1 ELSE 0)
            /\ \A i \in At(t, "connect") \cup At(t, "exec_command") : ~t[i].ok =>
                /\ i = Len(t)
                /\ DOMAIN LastResult(me) = {"success", "error"}

\* C6 witness: the probe failed, the one reconnect failed, and execute returned
\* the error without running the command.
C6_Witness == \E c \in Callers :
    /\ calls[c].pc = "returned"
    /\ calls[c].trace # <<>>
    /\ calls[c].trace[1].at = "probe" /\ ~calls[c].trace[1].ok
    /\ Len(calls[c].trace) = 4
    /\ calls[c].trace[4].at = "connect" /\ ~calls[c].trace[4].ok
    /\ "error" \in DOMAIN LastResult(calls[c])

\* C7: when the probe of the cached session fails, the next things the call
\* does are close() on that session (whether or not close raises) and clearing
\* the reference, and only then the connect; from the connect on the stale
\* session is closed and neither self._client nor the call's `client` is it, no
\* command is run on it, and if the connect fails the client holds no session.
C7_StaleReplaced == \A c \in Callers :
    LET me == calls[c]
        t == me.trace
    IN (t # <<>> /\ t[1].at = "probe" /\ ~t[1].ok) =>
        /\ Len(t) >= 2 => (t[2].at = "stale_close" /\ t[2].ev = "close" /\ t[2].sess = me.client0)
        /\ Len(t) >= 3 => (t[3].at = "clear" /\ t[3].ev = "assign_none")
        /\ \A i \in At(t, "connect") : i = 4
        /\ me.pc \in {"connect", "store", "return_client", "exec_command", "read", "returned"} =>
            /\ Len(t) >= 3
            /\ sessions[me.client0] = "closed"
            /\ _client # me.client0
            /\ me.client # me.client0
        /\ \A i \in 2..Len(t) : t[i].ev = "exec_command" => t[i].sess # me.client0
        /\ (me.pc = "returned" /\ \E i \in At(t, "connect") : ~t[i].ok) => _client = None

\* C7 witness: the probe failed, close() on the stale session raised, the new
\* connection failed, and execute returned.
C7_Witness == \E c \in Callers :
    /\ calls[c].pc = "returned"
    /\ Len(calls[c].trace) = 4
    /\ calls[c].trace[1].at = "probe" /\ ~calls[c].trace[1].ok
    /\ calls[c].trace[2].at = "stale_close" /\ ~calls[c].trace[2].ok
    /\ calls[c].trace[4].at = "connect" /\ ~calls[c].trace[4].ok
    /\ _client = None

\* C8, the states: close() never raises; after it the client holds no session;
\* it called paramiko's close() exactly when there was a session, and on that
\* session; the execute that follows close() (the first one of the next
\* operation) finds no session, does not probe and starts with a connect.
C8_CloseState == \A c \in Callers :
    LET me == calls[c]
        t == me.trace
    IN /\ me.op = "close" =>
            /\ me.pc = "idle"
            /\ _client = None
            /\ (me.client0 = None => t = <<>>)
            /\ (me.client0 # None => Len(t) = 1 /\ t[1].ev = "close" /\ t[1].sess = me.client0 /\ sessions[me.client0] = "closed")
            /\ (me.after_close => me.client0 = None)
       /\ (me.after_close /\ me.op # "close" /\ me.stage = 1 /\ HasCredentials /\ me.pc \in {"probe", "stale_close", "clear", "store", "return_client", "exec_command", "read", "returned"}) =>
            /\ me.client0 = None
            /\ At(t, "probe") = {}
            /\ t[1].at = "connect"

\* C8, the steps: a close() made right after a close() changes nothing of the
\* client and its sessions.
C8_CloseStep == \A c \in Callers :
    (calls[c].op = "close" /\ calls'[c].op = "close") => UNCHANGED client_state

\* C8: close() is idempotent and total.
C8_CloseIdempotent == []C8_CloseState /\ [][C8_CloseStep]_vars

\* C8 witness: an execute made right after close() returned the output of a
\* command run on a second, fresh connection.
C8_Witness == \E c \in Callers :
    /\ calls[c].after_close /\ calls[c].stage = 1
    /\ calls[c].pc = "returned"
    /\ nsess = 2 /\ sessions[1] = "closed" /\ _client = 2
    /\ "exit_code" \in DOMAIN LastResult(calls[c])

\* C9: a failure while connecting or running the command gives exactly one
\* error text, by kind: authentication failure, other transport failure
\* ("SSH error: " + message), anything else including a timeout ("Connection
\* error: " + message); a result has `error` only after such a failure, so a
\* failed probe alone produces none.
C9_Classification == \A c \in Callers :
    LET me == calls[c]
        e == me.exc
    IN (me.pc = "returned" /\ HasCredentials) =>
        /\ ("error" \in DOMAIN LastResult(me)) <=> (e.kind # "none")
        /\ e.kind # "none" =>
            /\ e.at \in {"connect", "exec_command", "read"}
            /\ LastResult(me).success = FALSE
            /\ LastResult(me).error =
                (CASE e.kind = "AuthenticationException" -> <<"Authentication failed. Check username and password.">>
                   [] e.kind = "SSHException" -> <<"SSH error: ">> \o e.msg
                   [] e.kind \in {"timeout", "Exception"} -> <<"Connection error: ">> \o e.msg)

\* C9 witness: the probe failed and the reconnect was refused for authentication.
C9_Witness == \E c \in Callers :
    /\ calls[c].pc = "returned"
    /\ calls[c].trace # <<>>
    /\ calls[c].trace[1].at = "probe" /\ ~calls[c].trace[1].ok
    /\ calls[c].exc.kind = "AuthenticationException" /\ calls[c].exc.at = "connect"
    /\ calls[c].exc.msg = <<"m">>

\* The thirteen operations of the tool catalog.
CatalogOps == FormattedOps \cup {"check_status", "write_file", "file_exists"}

\* What an operation returned reports the failure err: the text contains it, or
\* the JSON object has an error status or an error field that contains it.
Reports(resp, err) == IF "text" \in DOMAIN resp THEN Contains(resp.text, err)
    ELSE \/ "status" \in DOMAIN resp.json /\ resp.json.status = "error"
         \/ "error" \in DOMAIN resp.json /\ Contains(resp.json.error, err)

\* C10: whenever an execute call made by a tool-catalog operation returned a
\* result with `error`, what the operation returns reports that failure.
C10_FailuresReported == \A c \in Callers :
    LET me == calls[c]
    IN (me.pc = "idle" /\ me.op \in CatalogOps) =>
        \A i \in 1..Len(me.results) : "error" \in DOMAIN me.results[i] => Reports(me.response, me.results[i].error)

\* s starts with pre; s ends with suf
StartsWith(s, pre) == Len(pre) <= Len(s) /\ SubSeq(s, 1, Len(pre)) = pre
EndsWith(s, suf) == Len(suf) <= Len(s) /\ SubSeq(s, Len(s) - Len(suf) + 1, Len(s)) = suf

\* An operation that returns format_result(result) returned the text of a
\* result with success true.
FormattedSuccess(me) == me.pc = "idle" /\ me.op \in FormattedOps /\ me.results # <<>> /\ LastResult(me).success

\* C11 as stated: for every result with success true the text contains stdout
\* verbatim and, when stderr is not empty, "STDERR: " + stderr after it.
C11_Verbatim == \A c \in Callers :
    LET me == calls[c]
        r == LastResult(me)
        text == me.response.text
    IN FormattedSuccess(me) =>
        /\ Contains(text, r.stdout)
        /\ r.stderr # <<>> => \E i \in (Len(r.stdout) + 1)..Len(text) : SubSeq(text, i, i + Len(r.stderr) + 1) = <<"STDERR:", " ">> \o r.stderr

\* C11, amended: for every result with success true the text starts with
\* stdout trimmed of leading and trailing whitespace, and when stderr is not
\* empty it starts with stdout trimmed of leading whitespace only and ends,
\* after that, with "STDERR: " + stderr trimmed of trailing whitespace.
C11_Trimmed == \A c \in Callers :
    LET me == calls[c]
        r == LastResult(me)
        text == me.response.text
        tail == RStrip(<<"STDERR:", " ">> \o r.stderr)
    IN FormattedSuccess(me) =>
        /\ StartsWith(text, Strip(r.stdout))
        /\ Contains(text, Strip(r.stdout))
        /\ r.stderr # <<>> =>
            /\ StartsWith(text, LStrip(r.stdout))
            /\ EndsWith(text, tail)
            /\ Len(text) >= Len(LStrip(r.stdout)) + Len(tail)

\* C11 witness: a command that printed " a\n" and wrote "e\n" to stderr exited
\* with 0 and was formatted.
C11_Witness == \E c \in Callers :
    /\ FormattedSuccess(calls[c])
    /\ LastResult(calls[c]).stdout = <<" ", "a", "\n">>
    /\ LastResult(calls[c]).stderr = <<"e", "\n">>
    /\ calls[c].response.text = <<"a", "\n", "\n", "STDERR:", " ", "e">>

FormattedFailure(me) == me.pc = "idle" /\ me.op \in FormattedOps /\ me.results # <<>> /\ ~LastResult(me).success

\* C13: for every result with success false, also one of a command that ran
\* and exited non-zero, the text is "Error: " followed by the result's error
\* text, followed by a newline and stderr exactly when stderr is present and
\* not empty; the text is exactly that, so stdout is no part of it.
C13_ErrorText == \A c \in Callers :
    LET me == calls[c]
        r == LastResult(me)
        text == me.response.text
        stderr == Get(r, "stderr", <<>>)
    IN FormattedFailure(me) =>
        text = <<"Error: ">> \o Get(r, "error", <<>>) \o (IF stderr # <<>> THEN <<"\n">> \o stderr ELSE <<>>)

\* The frame of the execute tool called with an empty command.
EmptyCommandCall(me) == me.op = "ssh_execute" /\ me.args.command = <<>>

\* C14, the states: the execute tool called with an empty command has returned
\* exactly "Error: No command provided" and never called client.execute: no
\* result, no configuration check, probe, connect or command.
C14_EmptyState == \A c \in Callers :
    LET me == calls[c]
    IN EmptyCommandCall(me) =>
        /\ me.pc = "idle"
        /\ me.response = [text |-> <<"Error: No command provided">>]
        /\ me.stage = 0
        /\ me.results = <<>>
        /\ me.trace = <<>>

\* C14, the steps: the call is one step that leaves the client, its reference
\* and its sessions as they were.
C14_EmptyStep == \A c \in Callers :
    (calls[c].pc = "idle" /\ calls'[c] # calls[c] /\ EmptyCommandCall(calls'[c])) => UNCHANGED client_state

\* C14: an empty command is refused without invoking the executor.
C14_EmptyCommand == []C14_EmptyState /\ [][C14_EmptyStep]_vars

\* C14 witness: the tool was called with an empty command while the client
\* held an open session, which it still holds.
C14_Witness == \E c \in Callers :
    /\ EmptyCommandCall(calls[c])
    /\ calls[c].pc = "idle"
    /\ _client # None /\ sessions[_client] = "open"

\* How a POSIX shell reads the first word of w: inside single quotes every
\* character stands for itself up to the closing quote; outside them a
\* backslash makes the next character stand for itself, and a blank ends the
\* word.  The value is the word read and what is left of w; a quote that is
\* never closed gives the word "unterminated".
RECURSIVE ShellWord(_, _, _)
ShellWord(w, quoted, acc) ==
    IF w = <<>> THEN (IF quoted THEN [arg |-> <<"unterminated">>, rest |-> <<>>] ELSE [arg |-> acc, rest |-> <<>>])
    ELSE IF quoted THEN (IF Head(w) = "'" THEN ShellWord(Tail(w), FALSE, acc) ELSE ShellWord(Tail(w), TRUE, Append(acc, Head(w))))
    ELSE IF Head(w) = "'" THEN ShellWord(Tail(w), TRUE, acc)
    ELSE IF Head(w) = "\\" /\ Len(w) >= 2 THEN ShellWord(Tail(Tail(w)), FALSE, Append(acc, w[2]))
    ELSE IF Head(w) \in Whitespace THEN [arg |-> acc, rest |-> w]
    ELSE ShellWord(Tail(w), FALSE, Append(acc, Head(w)))

\* The number of single quotes in a text.
RECURSIVE Quotes(_)
Quotes(content) == IF content = <<>> THEN 0 ELSE (IF Head(content) = "'" THEN 1 ELSE 0) + Quotes(Tail(content))

\* C15: write_file runs echo '<escaped>' > path, or >> path to append, where
\* the argument between the quotes is the content with every single quote
\* replaced by the four characters '\'' and nothing else changed, so that a
\* shell reads the argument back as the content; it returns "Successfully
\* wrote to <path>" exactly when the result has success true, and the
\* formatted error otherwise.
C15_WriteFile == \A c \in Callers :
    LET me == calls[c]
        a == me.args
        read == ShellWord(Tail(me.command), FALSE, <<>>)
    IN me.op = "write_file" =>
        /\ me.pc # "idle" =>
            /\ Head(me.command) = "echo "
            /\ read.arg = a.content
            /\ read.rest = <<" ", IF a.append THEN ">>" ELSE ">", " ">> \o a.path
            /\ Len(me.command) = 1 + 2 + Len(a.content) + 3 * Quotes(a.content) + 3 + Len(a.path)
            /\ me.command[2] = "'"
        /\ me.pc = "idle" =>
            /\ LastResult(me).success <=> (me.response.text = <<"Successfully wrote to ">> \o a.path)
            /\ ~LastResult(me).success =>
                /\ StartsWith(me.response.text, <<"Error: ">>)
                /\ "error" \in DOMAIN LastResult(me) => me.response.text = <<"Error: ">> \o LastResult(me).error

\* C15 witness: write_file appended a content made of a quote, a backslash and
\* a quote, and the command exited with 0.
C15_Witness == \E c \in Callers :
    /\ calls[c].op = "write_file"
    /\ calls[c].pc = "returned"
    /\ calls[c].args.content = <<"'", "\\", "'">>
    /\ calls[c].args.append
    /\ calls[c].command = <<"echo ", "'", "'", "\\", "'", "'", "\\", "'", "\\", "'", "'", "'", " ", ">>", " ", "/", "t">>
    /\ LastResult(calls[c]).success

\* C16: file_exists returns {exists: true, info: the trimmed output of the
\* `file` command} exactly when the trimmed stdout of the `test -e` command is
\* "exists", and {exists: false} without info otherwise; it calls execute a
\* second time, with the `file` command, only in the first case: two calls
\* of execute when the path exists and one when it does not.
C16_FileExists == \A c \in Callers :
    LET me == calls[c]
        path == me.args.path
        printed == Strip(Get(me.results[1], "stdout", <<>>))
    IN me.op = "file_exists" =>
        /\ me.stage \in {1, 2}
        /\ (me.stage = 1 /\ me.pc # "idle") => (me.command = <<"test -e ">> \o path \o <<" && echo 'exists' || echo 'not found'">> /\ Len(me.results) = (IF me.pc = "returned" THEN 1 ELSE 0))
        /\ me.stage = 2 => (me.results # <<>> /\ printed = <<"exists">>)
        /\ (me.stage = 2 /\ me.pc # "idle") => (me.command = <<"file ">> \o path /\ Len(me.results) = (IF me.pc = "returned" THEN 2 ELSE 1))
        /\ me.pc = "idle" =>
            /\ me.response.json.exists <=> (printed = <<"exists">>)
            /\ me.response.json.exists => (me.stage = 2 /\ Len(me.results) = 2 /\ me.response.json = [exists |-> TRUE, info |-> Strip(Get(me.results[2], "stdout", <<>>))])
            /\ ~me.response.json.exists => (me.stage = 1 /\ Len(me.results) = 1 /\ me.response.json = [exists |-> FALSE])

\* C16 witness: `test -e` printed "exists\n", the `file` command printed
\* " a\n", and file_exists returned {exists: true, info: "a"}.
C16_Witness == \E c \in Callers :
    /\ calls[c].op = "file_exists" /\ calls[c].pc = "idle"
    /\ Len(calls[c].results) = 2
    /\ Get(calls[c].results[1], "stdout", <<>>) = <<"exists", "\n">>
    /\ Get(calls[c].results[2], "stdout", <<>>) = <<" ", "a", "\n">>
    /\ calls[c].response.json = [exists |-> TRUE, info |-> <<"a">>]

\* The tokens of a text.
Tokens(s) == {s[i] : i \in 1..Len(s)}

\* C17: read_file calls execute exactly once, with `head -n N path` for a
\* positive N, `tail -n |N| path` for a negative N, and `cat path` when lines
\* is None or 0; the number given to head or tail is never negative.
C17_ReadFile == \A c \in Callers :
    LET me == calls[c]
        path == me.args.path
        lines == me.args.lines
    IN me.op = "read_file" =>
        /\ me.stage = 1
        /\ Len(me.results) = (IF me.pc \in {"returned", "idle"} THEN 1 ELSE 0)
        /\ me.pc # "idle" =>
            /\ (lines # <<>> /\ lines[1] > 0) => me.command = <<"head -n ">> \o Digits(lines[1]) \o <<" ">> \o path
            /\ (lines # <<>> /\ lines[1] < 0) => me.command = <<"tail -n ">> \o Digits(0 - lines[1]) \o <<" ">> \o path
            /\ (lines = <<>> \/ lines = <<0>>) => me.command = <<"cat ">> \o path
            /\ "-" \notin Tokens(me.command)
            /\ \A i \in 1..Len(me.trace) : me.trace[i].at = "exec_command" => me.trace[i].cmd = me.command

\* C17 witness: read_file with lines = -10 ran `tail -n 10 /t`.
C17_Witness == \E c \in Callers :
    /\ calls[c].op = "read_file" /\ calls[c].pc = "returned"
    /\ calls[c].args.lines = <<-10>>
    /\ calls[c].command = <<"tail -n ", "1", "0", " ", "/", "t">>
    /\ "exit_code" \in DOMAIN LastResult(calls[c])

\* C18: list_files composes valid ls flags for every combination of all and
\* long: the command is `ls path` when both are false, and otherwise
\* `ls -<flags> path` where the flag word starts with "-", has "l" and "h"
\* exactly when long is true and "a" exactly when all is true.
C18_ValidFlags == \A c \in Callers :
    LET me == calls[c]
        a == me.args
        word == ShellWord(SubSeq(me.command, 3, Len(me.command)), FALSE, <<>>)
    IN (me.op = "list_files" /\ me.pc # "idle") =>
        /\ SubSeq(me.command, 1, 2) = <<"ls", " ">>
        /\ (~a.all /\ ~a.long) => me.command = <<"ls", " ">> \o a.path
        /\ (a.all \/ a.long) =>
            /\ word.arg # <<>> /\ Head(word.arg) = "-"
            /\ ("l" \in Tokens(word.arg)) <=> a.long
            /\ ("h" \in Tokens(word.arg)) <=> a.long
            /\ ("a" \in Tokens(word.arg)) <=> a.all
            /\ word.rest = <<" ">> \o a.path

\* C19: check_status on a client that is not configured returns {status:
\* "error", error} without calling execute; on a configured client it calls
\* execute exactly once, with "hostname && uname -a" and timeout 10, and
\* returns {status: "connected", host: "<host>:<port>", user, system: trimmed
\* stdout} exactly when the result has success true and {status: "error",
\* host, error} otherwise; status is always "connected" or "error".
C19_CheckStatus == \A c \in Callers :
    LET me == calls[c]
        t == me.trace
        json == me.response.json
        hostport == host \o <<":">> \o Digits(port)
    IN me.op = "check_status" =>
        /\ ~HasCredentials =>
            /\ me.pc = "idle" /\ me.stage = 0 /\ me.results = <<>>
            /\ DOMAIN json = {"status", "error"}
            /\ json.status = "error" /\ json.error # <<>>
        /\ HasCredentials =>
            /\ me.stage = 1
            /\ Len(me.results) = (IF me.pc \in {"returned", "idle"} THEN 1 ELSE 0)
            /\ me.pc # "idle" => (me.command = <<"hostname && uname -a">> /\ me.timeout = 10)
            /\ \A i \in 1..Len(t) : t[i].at = "exec_command" => (t[i].cmd = <<"hostname && uname -a">> /\ t[i].timeout = 10)
            /\ me.pc = "idle" =>
                /\ LastResult(me).success <=> (json.status = "connected")
                /\ LastResult(me).success => json = [status |-> "connected", host |-> hostport, user |-> user, system |-> Strip(LastResult(me).stdout)]
                /\ ~LastResult(me).success => (DOMAIN json = {"status", "host", "error"} /\ json.status = "error" /\ json.host = hostport /\ json.error # <<>>)
        /\ me.pc = "idle" => json.status \in {"connected", "error"}

\* C19 witness: check_status on a client configured from the environment with
\* port 2222 returned connected, with the system line trimmed.
C19_Witness == \E c \in Callers :
    /\ calls[c].op = "check_status" /\ calls[c].pc = "idle"
    /\ calls[c].response.json = [status |-> "connected", host |-> <<"n", ":", "2", "2", "2", "2">>, user |-> <<"v">>, system |-> <<"a">>]
    /\ LastResult(calls[c]).stdout = <<" ", "a", "\n">>

\* Caller c called close() on session s in its running call.
ClosedBy(c, s) == \E i \in 1..Len(calls[c].trace) : calls[c].trace[i].ev = "close" /\ calls[c].trace[i].sess = s

\* Caller c stands before line 81 holding a session that close() was called on.
HoldsClosed(c) == calls[c].pc = "exec_command" /\ calls[c].client # None /\ sessions[calls[c].client] = "closed"

\* Session s is open, the client does not refer to it, and no caller is about
\* to store it: it was overwritten in the client without being closed.
Overwritten(s) == sessions[s] = "open" /\ _client # s /\ \A c \in Callers : ~(calls[c].pc = "store" /\ calls[c].fresh = s)

\* C20, the states: a caller that is about to run its command on a closed
\* session did not close it itself: another caller did.
C20_ClosedByOther == \A c \in Callers : HoldsClosed(c) => ~ClosedBy(c, calls[c].client)

\* C20, the steps: line 81 runs the command on the session the caller holds,
\* whatever became of it, and on a closed session the call ends with an
\* error; an overwritten session stays open and unreferenced, since no step
\* can close it.
C20_Steps ==
    /\ \A c \in Callers : (calls[c].pc = "exec_command" /\ calls'[c].pc # "exec_command") =>
        LET t == calls'[c].trace
        IN /\ t[Len(t)].at = "exec_command" /\ t[Len(t)].sess = calls[c].client
           /\ HoldsClosed(c) => (~t[Len(t)].ok /\ calls'[c].pc = "returned" /\ "error" \in DOMAIN LastResult(calls'[c]))
    /\ \A s \in 1..MaxSessions : Overwritten(s) => Overwritten(s)'

\* C20: with two callers in execute at the same time and no lock, a caller
\* runs its command on a session another caller closed, and a session is
\* overwritten in the client without being closed, so that two are open.
C20_DataRace == []C20_ClosedByOther /\ [][C20_Steps]_vars

\* C20 witness: one caller stands before line 81 holding the session that
\* _get_client returned to it, which the other caller, in its own running
\* call, has closed and taken out of the client meanwhile.
C20_Witness == \E c \in Callers, d \in Callers :
    /\ c # d
    /\ HoldsClosed(c)
    /\ ClosedBy(d, calls[c].client)
    /\ _client # calls[c].client

\* The other outcome of the race: both callers found no session, both
\* connected, and the second store overwrote the first: two sessions are open
\* and the client refers to one of them.
C20_TwoOpen ==
    /\ Cardinality(OpenSessions) = 2
    /\ \E s \in OpenSessions : Overwritten(s)
    /\ \A c \in Callers : calls[c].pc = "idle"

\* The call of caller c failed while running its command or reading its exit
\* status and output, and execute has returned.
CommandFailed(me) == me.pc = "returned" /\ me.exc.at \in {"exec_command", "read"}

\* C21, the states: when running the command or reading its output fails,
\* execute returns an error result and the session it acquired is still the
\* client's session and still open: the call made no close() on it and did
\* not clear the reference.
C21_KeptState == \A c \in Callers :
    LET me == calls[c]
        t == me.trace
    IN CommandFailed(me) =>
        /\ DOMAIN LastResult(me) = {"success", "error"} /\ ~LastResult(me).success
        /\ me.client # None
        /\ _client = me.client
        /\ sessions[me.client] = "open"
        /\ t[Len(t)].at = "exec_command" /\ t[Len(t)].sess = me.client
        /\ \A i \in 1..Len(t) : t[i].ev \in {"close", "assign_none"} => t[i].sess # me.client

\* C21, the steps: a session the client holds is closed or taken out of the
\* client only by close(), or by an execute call whose liveness probe of that
\* session failed.
C21_ReplacedStep == \A s \in 1..MaxSessions :
    (_client = s /\ sessions[s] = "open" /\ (_client' # s \/ sessions'[s] # "open")) =>
        \E c \in Callers :
            \/ calls'[c].op = "close" /\ calls'[c].client0 = s
            \/ /\ calls[c].pc \in {"stale_close", "clear"}
               /\ calls[c].client0 = s
               /\ calls[c].trace[1] = [at |-> "probe", ev |-> "exec_command", sess |-> s, cmd |-> <<"echo">>, timeout |-> 5, ok |-> FALSE]

\* C21: a failure after the session was acquired leaves the cached session
\* in place.
C21_SessionKept == []C21_KeptState /\ [][C21_ReplacedStep]_vars

\* C21 witness: the probe of the cached session succeeded, reading the output
\* of the command timed out, and execute returned with that session still
\* cached and open.
C21_Witness == \E c \in Callers :
    /\ CommandFailed(calls[c])
    /\ calls[c].exc = [kind |-> "timeout", msg |-> <<"m">>, at |-> "read"]
    /\ calls[c].client0 # None
    /\ _client = calls[c].client0 /\ sessions[_client] = "open"
    /\ LastResult(calls[c]).error = <<"Connection error: ", "m">>

====
